---- MODULE Spec2Model ----
(***************************************************************************)
(* A model of PackageScanner (src/package_scanner.py): the directory       *)
(* classifier, the two manifest readers, the store scanner, the tree       *)
(* walker run by every pool thread and the coordinator that merges the     *)
(* workers' partial maps.                                                  *)
(*                                                                         *)
(* A directory is the sequence of names leading to it from the top of the  *)
(* modelled tree, <<>> being the top itself; the top's absolute path has   *)
(* baseParts components (1 when the top is "/").                           *)
(***************************************************************************)
EXTENDS Integers, Sequences, FiniteSets, TLC

VARIABLES
    fsName,         \* which filesystem the scan runs on (fixed during a run)
    baseParts,      \* len(Path(top).parts) of the top of the tree
    roots,          \* search_paths: the list of root directories
    max_workers,    \* ThreadPoolExecutor(max_workers=...)
    scanned_dirs,   \* self.scanned_dirs, shared by all workers
    coord,          \* position of scan_computer
    results,        \* results['installed_packages'], ['dependency_references'], ['summary']
    merged,         \* futures whose result the coordinator has consumed
    pc,             \* per worker: position in scan_directory_worker
    stack,          \* per worker: directories os.walk has still to yield
    cur,            \* per worker: current_path between the check and the add
    installed,      \* per worker: installed_packages
    deps,           \* per worker: dependency_references
    failed,         \* per worker: what raised into "except Exception" (line 190)
    processed,      \* history: <<worker, directory, "store" or "manifest">> for every
                    \* store scan and every manifest extraction done
    previous        \* history: what the earlier calls of scan_computer on this
                    \* scanner returned

vars == <<fsName, baseParts, roots, max_workers, scanned_dirs, coord, results,
          merged, pc, stack, cur, installed, deps, failed, processed, previous>>

-----------------------------------------------------------------------------
(* Bounds of the model *)

\* largest pool size tried
MaxPool == 2
\* longest list of roots tried
MaxRoots == 2
\* number of nested plain directories of the deep tree
ChainLen == 10

(* Program constants *)

\* len(current_path.parts) > 10
DepthLimit == 10

-----------------------------------------------------------------------------
(* The target set and the names the classifier knows *)

\* self.target_packages: a sample of PACKAGE_LIST plus the spec's "left-pad", and
\* the bare name of a scope
target_packages == {"left-pad", "@ctrl/tinycolor", "ngx-color", "yoo-styles", "@ctrl"}

skip_dirs ==
    {".git", ".svn", ".hg", "__pycache__", "venv", "env", ".env", "virtualenv",
     ".vscode", ".idea", "dist", "build", "target", "bin", "obj", ".cache",
     "Windows", "System32", "Program Files", "Applications"}

allowed_dot_names == {".npm", ".node_modules"}

dep_sections ==
    <<"dependencies", "devDependencies", "peerDependencies", "optionalDependencies">>

\* the stems from which the names of the modelled trees are built
NameStems ==
    {"git", "svn", "hg", "env", "vscode", "idea", "cache", "npm", "node_modules",
     "npm-global", "ctrl", "left-pad", "lodash", "ngx-color", "yoo-styles",
     "tinycolor", "web", "zz", "c", "user", "build", "locked"}

\* the names that begin with "." and with "@"
DotNames == {"." \o s : s \in NameStems}
ScopeNames == {"@" \o s : s \in NameStems}

\* str.startswith(ch) for the two prefixes the scanner tests
StartsWith(name, ch) ==
    CASE ch = "." -> name \in DotNames
      [] ch = "@" -> name \in ScopeNames

EmptyMap == [k \in {} |-> k]

\* a merge in which the entries already in a are kept
KeepFirst(a, b) ==
    [k \in (DOMAIN a) \cup (DOMAIN b) |-> IF k \in DOMAIN a THEN a[k] ELSE b[k]]

\* dict.update: the entries of b overwrite those of a
Update(a, b) ==
    [k \in (DOMAIN a) \cup (DOMAIN b) |-> IF k \in DOMAIN b THEN b[k] ELSE a[k]]

-----------------------------------------------------------------------------
(* Files: what open() and json.load() give for a package.json *)

Missing == "<missing>"

\* a package.json: kind is what reading it gives, the other fields are those of
\* the parsed record
File(kind, name, version, sections) ==
    [kind |-> kind, name |-> name, version |-> version, sections |-> sections]

NoFile == File("absent", Missing, Missing, EmptyMap)
BadFile(kind) == File(kind, Missing, Missing, EmptyMap)
Record(name, version, sections) == File("record", name, version, sections)

\* a dependency section that is a mapping identifier -> version range
Mapping(entries) == [mapping |-> TRUE, entries |-> entries]
\* a dependency section that is a list, a string, a number or null
NotMapping == [mapping |-> FALSE, entries |-> EmptyMap]

One(k, v) == [x \in {k} |-> v]

(* The filesystems the scan is run on *)

\* "clean" has only well-formed files.  In the next three every defect is one the
\* readers catch or substitute: an unparsable, unreadable or list manifest of web/
\* and an unparsable, absent or version-less metadata file of left-pad.  The last
\* four have one file each that parses to something a reader does not expect.
ProjectVariants ==
    {"clean", "unparsable", "unreadable", "list_noversion",
     "web_badsection", "web_number", "meta_list", "parent_list"}

FsNames == ProjectVariants \cup {"deep"}

RECURSIVE Chain(_)
Chain(n) == IF n = 0 THEN <<>> ELSE Chain(n - 1) \o <<"c">>

WebModules == <<"web", "node_modules">>

\* home/.npm-global, one of the global npm directories of get_search_paths
GlobalRoot == <<".npm-global">>

ProjectDirs ==
    {<<>>,
     GlobalRoot, GlobalRoot \o <<"node_modules">>,
     GlobalRoot \o <<"node_modules", "left-pad">>,
     <<"node_modules">>, <<"node_modules", "left-pad">>,
     <<"node_modules", "@ctrl">>, <<"node_modules", "@ctrl", "yoo-styles">>,
     <<"web">>,
     <<"web", ".git">>, <<"web", ".git", "node_modules">>,
     <<"web", ".git", "node_modules", "yoo-styles">>,
     <<"web", "locked">>, <<"web", "locked", "node_modules">>,
     <<"web", "locked", "node_modules", "yoo-styles">>,
     WebModules,
     WebModules \o <<"@ctrl">>, WebModules \o <<"@ctrl", "tinycolor">>,
     WebModules \o <<"lodash">>,
     WebModules \o <<"ngx-color">>,
     WebModules \o <<"ngx-color", "node_modules">>,
     WebModules \o <<"ngx-color", "node_modules", "left-pad">>,
     <<"zz">>}

DeepDirs ==
    {Chain(n) : n \in 0..ChainLen}
        \cup {Chain(ChainLen) \o <<"node_modules">>,
              Chain(ChainLen) \o <<"node_modules", "left-pad">>}

Dirs(fs) == IF fs = "deep" THEN DeepDirs ELSE ProjectDirs

\* os.access(path, os.R_OK), and whether os.scandir(path) succeeds
Readable(fs, d) == ~(fs # "deep" /\ d = <<"web", "locked">>)

\* the manifest of web/ when nothing is wrong with it: ngx-color in all four classes
WebManifest ==
    Record("web", "2.0.0",
           [s \in {"dependencies", "devDependencies", "peerDependencies",
                   "optionalDependencies"} |->
              CASE s = "dependencies" ->
                     Mapping([k \in {"ngx-color", "lodash"} |->
                                 IF k = "lodash" THEN "^4.17.0" ELSE "^10.0.0"])
                [] s = "devDependencies" ->
                     Mapping([k \in {"ngx-color", "@ctrl/tinycolor"} |->
                                 IF k = "ngx-color" THEN "^10.0.1" ELSE "^4.1.0"])
                [] s = "peerDependencies" -> Mapping(One("ngx-color", ">=10"))
                [] OTHER -> Mapping(One("ngx-color", "*"))])

ProjectFile(fs, d) ==
    CASE d = <<>> ->
           IF fs = "parent_list" THEN BadFile("list")
           ELSE Record("root-app", "1.0.0",
                       One("dependencies", Mapping(One("left-pad", "^1.0.0"))))
      [] d = GlobalRoot \o <<"node_modules", "left-pad">> ->
           Record("left-pad", "1.3.0", EmptyMap)
      [] d = <<"node_modules", "left-pad">> ->
           CASE fs = "meta_list" -> BadFile("list")
             [] fs = "unparsable" -> BadFile("unparsable")
             [] fs = "list_noversion" -> Record("left-pad", Missing, EmptyMap)
             [] fs = "unreadable" -> NoFile
             [] OTHER -> Record("left-pad", "1.3.0", EmptyMap)
      [] d = <<"web">> ->
           CASE fs = "web_badsection" ->
                  Record("web", "2.0.0",
                         [s \in {"dependencies", "devDependencies"} |->
                            IF s = "dependencies"
                            THEN Mapping(One("ngx-color", "^10.0.0"))
                            ELSE NotMapping])
             [] fs = "web_number" -> BadFile("number")
             [] fs = "list_noversion" -> BadFile("list")
             [] fs = "unparsable" -> BadFile("unparsable")
             [] fs = "unreadable" -> BadFile("unreadable")
             [] OTHER -> WebManifest
      [] d \in {<<"web", ".git", "node_modules", "yoo-styles">>,
                <<"web", "locked", "node_modules", "yoo-styles">>} ->
           Record("yoo-styles", "6.0.326", EmptyMap)
      [] d = WebModules \o <<"@ctrl", "tinycolor">> ->
           Record("@ctrl/tinycolor", "4.1.1", EmptyMap)
      [] d = <<"node_modules", "@ctrl", "yoo-styles">> ->
           Record("@ctrl/yoo-styles", "1.0.0", EmptyMap)
      [] d = WebModules \o <<"lodash">> -> Record("lodash", "4.17.21", EmptyMap)
      [] d = WebModules \o <<"ngx-color">> ->
           Record("ngx-color", "10.0.1",
                  One("dependencies", Mapping(One("left-pad", "^0.0.9"))))
      [] d = WebModules \o <<"ngx-color", "node_modules", "left-pad">> ->
           Record("left-pad", "0.0.9", EmptyMap)
      [] d = <<"zz">> ->
           Record(Missing, Missing,
                  One("optionalDependencies", Mapping(One("yoo-styles", "6.0.326"))))
      [] OTHER -> NoFile

DeepFile(d) ==
    IF d = Chain(ChainLen) \o <<"node_modules", "left-pad">>
    THEN Record("left-pad", "1.3.0", EmptyMap)
    ELSE NoFile

\* the package.json of directory d, NoFile when d has none
PackageJson(fs, d) == IF fs = "deep" THEN DeepFile(d) ELSE ProjectFile(fs, d)

(* Paths *)

Parent(d) == SubSeq(d, 1, Len(d) - 1)

\* Path.name; the top of the tree is "/" when its path has one component
Name(bp, d) ==
    IF d # <<>> THEN d[Len(d)] ELSE IF bp = 1 THEN "" ELSE "user"

\* len(Path.parts)
Parts(bp, d) == bp + Len(d)

IsPrefix(a, b) == Len(a) <= Len(b) /\ SubSeq(b, 1, Len(a)) = a

\* the order in which a directory's entries are listed
NameOrder ==
    <<".git", ".npm-global", "@ctrl", "c", "left-pad", "locked", "lodash", "ngx-color",
      "node_modules", "tinycolor", "web", "yoo-styles", "zz">>

\* the subdirectories of d, as os.walk lists them in dirs
SubDirs(fs, d) ==
    SelectSeq([i \in 1..Len(NameOrder) |-> d \o <<NameOrder[i]>>],
              LAMBDA c : c \in Dirs(fs))

-----------------------------------------------------------------------------
(* The readers.  A call gives [raised, value]: raised when an exception the  *)
(* function does not catch leaves it, value being what it returns otherwise. *)

Returns(v) == [raised |-> FALSE, value |-> v]
Raises == [raised |-> TRUE, value |-> EmptyMap]

\* a classifier without the rule for the names that begin with "."
SkipListedOnly(fs, bp, d) ==
    \/ Name(bp, d) \in skip_dirs
    \/ ~Readable(fs, d)

\* path.name.startswith('.') and path.name not in {...} or path.name in skip_dirs
\* or not os.access(path, os.R_OK)
should_skip_directory(fs, bp, d) ==
    \/ StartsWith(Name(bp, d), ".") /\ Name(bp, d) \notin allowed_dot_names
    \/ Name(bp, d) \in skip_dirs
    \/ ~Readable(fs, d)

\* the metadata file as get_package_version sees it: exists() is False inside a
\* directory that cannot be searched
MetadataOf(fs, pkg) == IF Readable(fs, pkg) THEN PackageJson(fs, pkg) ELSE NoFile

\* json.JSONDecodeError, PermissionError and OSError are caught; the
\* AttributeError of .get on a parsed list or number is not
get_package_version(fs, pkg) ==
    LET f == MetadataOf(fs, pkg) IN
    CASE f.kind \in {"absent", "unreadable", "unparsable"} -> Returns("unknown")
      [] f.kind = "record" ->
           Returns(IF f.version = Missing THEN "unknown" ELSE f.version)
      [] OTHER -> [raised |-> TRUE, value |-> "unknown"]

find_parent_project(fs, bp, nm) ==
    LET f == PackageJson(fs, Parent(nm))
        dirname == Name(bp, Parent(nm)) IN
    CASE f.kind \in {"absent", "unreadable", "unparsable"} -> Returns(dirname)
      [] f.kind = "record" -> Returns(IF f.name = Missing THEN dirname ELSE f.name)
      [] OTHER -> [raised |-> TRUE, value |-> dirname]

Items(fs, d) == {c \in Dirs(fs) : Len(c) = Len(d) + 1 /\ IsPrefix(d, c)}

\* scan_node_modules without "if item.name in self.target_packages" for the
\* regular packages
StoreMatchesUnfiltered(fs, bp, nm) ==
    {[id |-> Name(bp, c), dir |-> c] :
        c \in {i \in Items(fs, nm) : ~StartsWith(Name(bp, i), "@")}}

\* scan_node_modules testing a scoped package under the name of its own directory
StoreMatchesByChildName(fs, bp, nm) ==
    LET plain == {[id |-> Name(bp, c), dir |-> c] :
                    c \in {i \in Items(fs, nm) :
                             /\ ~StartsWith(Name(bp, i), "@")
                             /\ Name(bp, i) \in target_packages}}
        scopes == {i \in Items(fs, nm) :
                     StartsWith(Name(bp, i), "@") /\ Readable(fs, i)}
        scoped == UNION {{[id |-> Name(bp, c), dir |-> c] :
                            c \in {x \in Items(fs, i) :
                                     Name(bp, x) \in target_packages}} :
                         i \in scopes}
    IN  plain \cup scoped

\* the entries of a store that match the target set, each with its identifier
StoreMatches(fs, bp, nm) ==
    LET plain == {[id |-> Name(bp, c), dir |-> c] :
                    c \in {i \in Items(fs, nm) :
                             /\ ~StartsWith(Name(bp, i), "@")
                             /\ Name(bp, i) \in target_packages}}
        scopes == {i \in Items(fs, nm) :
                     StartsWith(Name(bp, i), "@") /\ Readable(fs, i)}
        scoped == UNION {{[id |-> Name(bp, i) \o "/" \o Name(bp, c), dir |-> c] :
                            c \in {x \in Items(fs, i) :
                                     (Name(bp, i) \o "/" \o Name(bp, x))
                                        \in target_packages}} :
                         i \in scopes}
    IN  plain \cup scoped

InstalledRecord(fs, bp, nm, m) ==
    [version |-> get_package_version(fs, m.dir).value,
     path |-> m.dir,
     parent_project |-> find_parent_project(fs, bp, nm).value]

scan_node_modules(fs, bp, nm) ==
    LET ms == StoreMatches(fs, bp, nm) IN
    IF ~Readable(fs, nm) THEN Returns(EmptyMap)
    ELSE IF \E m \in ms : \/ get_package_version(fs, m.dir).raised
                          \/ find_parent_project(fs, bp, nm).raised
    THEN Raises
    ELSE Returns([id \in {m.id : m \in ms} |->
                    InstalledRecord(fs, bp, nm,
                                    CHOOSE m \in ms : m.id = id)])

DependencyRecord(f, d, section, pkg) ==
    [version |-> f.sections[section].entries[pkg],
     dependency_type |-> section,
     project |-> IF f.name = Missing THEN "unknown" ELSE f.name,
     path |-> d]

\* for section in dep_sections: ... found_dependencies[pkg_name] = {...}
RECURSIVE ScanSections(_, _, _, _)
ScanSections(f, d, i, found) ==
    IF i > Len(dep_sections) THEN Returns(found)
    ELSE IF dep_sections[i] \notin DOMAIN f.sections
    THEN ScanSections(f, d, i + 1, found)
    ELSE IF ~f.sections[dep_sections[i]].mapping THEN Raises
    ELSE ScanSections(f, d, i + 1,
            Update(found,
                   [pkg \in (DOMAIN f.sections[dep_sections[i]].entries)
                                \cap target_packages |->
                      DependencyRecord(f, d, dep_sections[i], pkg)]))

\* d is the directory holding the manifest
scan_package_json(fs, d) ==
    LET f == PackageJson(fs, d) IN
    CASE f.kind \in {"absent", "unreadable", "unparsable", "list"} -> Returns(EmptyMap)
      [] f.kind = "record" -> ScanSections(f, d, 1, EmptyMap)
      [] OTHER -> Raises

-----------------------------------------------------------------------------
(* The scan *)

Workers == 1..Len(roots)

\* the directories a scan may be given as roots, a containing directory before
\* the directories below it, as get_search_paths lists them
RootCandidates(fs) ==
    IF fs = "deep" THEN <<<<>>, <<"c">>, <<"c", "c">>>>
    ELSE <<<<>>, <<"web">>, WebModules>>

\* the lists of at most MaxRoots roots, in the order of RootCandidates
RootLists(fs) ==
    {r \in UNION {[1..n -> {RootCandidates(fs)[i] :
                               i \in 1..Len(RootCandidates(fs))}] :
                     n \in 1..MaxRoots} :
        \E f \in [1..Len(r) -> 1..Len(RootCandidates(fs))] :
            /\ \A i \in 1..Len(r) : r[i] = RootCandidates(fs)[f[i]]
            /\ \A i, j \in 1..Len(r) : i < j => f[i] < f[j]}

\* the lists of at most MaxRoots roots that end with the global npm directory
GlobalRootLists(fs) ==
    {<<GlobalRoot>>}
        \cup {Append(r, GlobalRoot) : r \in {l \in RootLists(fs) : Len(l) < MaxRoots}}

\* the top of the tree is "/", or a directory whose path is longer than the
\* depth limit
BasePartsChoices == {1, DepthLimit + 1}

NoSummary == EmptyMap

\* the state after PackageScanner.__init__, with the inputs of the scan chosen
Init ==
    /\ fsName \in FsNames
    /\ baseParts \in BasePartsChoices
    /\ roots \in RootLists(fsName)
    /\ max_workers \in 1..MaxPool
    /\ scanned_dirs = {}
    /\ coord = "created"
    /\ results = [installed_packages |-> EmptyMap,
                  dependency_references |-> EmptyMap,
                  summary |-> NoSummary]
    /\ merged = {}
    /\ pc = [w \in Workers |-> "new"]
    /\ stack = [w \in Workers |-> <<>>]
    /\ cur = [w \in Workers |-> <<>>]
    /\ installed = [w \in Workers |-> EmptyMap]
    /\ deps = [w \in Workers |-> EmptyMap]
    /\ failed = [w \in Workers |-> "no"]
    /\ processed = {}
    /\ previous = <<>>

\* scan_computer up to the submission of one task per search path
ScanComputer ==
    /\ coord = "created"
    /\ coord' = "scanning"
    /\ results' = [installed_packages |-> EmptyMap,
                   dependency_references |-> EmptyMap,
                   summary |-> NoSummary]
    /\ merged' = {}
    /\ pc' = [w \in Workers |-> "queued"]
    /\ UNCHANGED <<previous, fsName, baseParts, roots, max_workers, scanned_dirs, stack, cur,
                   installed, deps, failed, processed>>

\* a pool whose threads are not given back when their task has returned
RunningOrDone == {w \in Workers : pc[w] \in {"walk", "add", "done"}}

\* the tasks that occupy a pool thread
Running == {w \in Workers : pc[w] \in {"walk", "add"}}

\* a pool thread takes the oldest queued task: scan_directory_worker begins
Start(w) ==
    /\ pc[w] = "queued"
    /\ \A v \in Workers : v < w => pc[v] # "queued"
    /\ Cardinality(Running) < max_workers
    /\ pc' = [pc EXCEPT ![w] = "walk"]
    /\ stack' = [stack EXCEPT ![w] = <<roots[w]>>]
    /\ installed' = [installed EXCEPT ![w] = EmptyMap]
    /\ deps' = [deps EXCEPT ![w] = EmptyMap]
    /\ UNCHANGED <<previous, fsName, baseParts, roots, max_workers, scanned_dirs, coord,
                   results, merged, cur, failed, processed>>

\* what os.walk has left for the worker once the body ran on d: nothing of d
\* after dirs.clear(), d's subdirectories first otherwise
Descend(fs, d, rest) == SubDirs(fs, d) \o rest

\* a walker that forgets dirs.clear()
DescendAnyway(fs, d, rest) == SubDirs(fs, d) \o rest
Prune(fs, d, rest) == rest

\* os.walk yields the next directory; the body runs up to the test
\* "path_str in self.scanned_dirs"
Enter(w) ==
    /\ pc[w] = "walk"
    /\ stack[w] # <<>>
    /\ LET d == Head(stack[w])
           rest == Tail(stack[w]) IN
       IF ~Readable(fsName, d) \/ should_skip_directory(fsName, baseParts, d)
       THEN /\ stack' = [stack EXCEPT ![w] = Prune(fsName, d, rest)]
            /\ UNCHANGED <<pc, cur>>
       ELSE IF d \in scanned_dirs
       THEN /\ stack' = [stack EXCEPT ![w] = Descend(fsName, d, rest)]
            /\ UNCHANGED <<pc, cur>>
       ELSE /\ stack' = [stack EXCEPT ![w] = rest]
            /\ pc' = [pc EXCEPT ![w] = "add"]
            /\ cur' = [cur EXCEPT ![w] = d]
    /\ UNCHANGED <<previous, fsName, baseParts, roots, max_workers, scanned_dirs, coord,
                   results, merged, installed, deps, failed, processed>>

\* len(current_path.parts) > 10
TooDeep(bp, d) == Parts(bp, d) > DepthLimit

\* the body of the loop for a directory d that passed the scanned_dirs test,
\* from "if current_path.name == 'node_modules'" on: the worker's two maps and what
\* os.walk has left (rest is what it had left besides d), failed naming the call
\* that raised into "except Exception"
Body(fs, bp, d, inst, dps, rest) ==
    IF Name(bp, d) = "node_modules"
    THEN LET r == scan_node_modules(fs, bp, d) IN
         [installed |-> IF r.raised THEN inst ELSE Update(inst, r.value),
          deps |-> dps,
          stack |-> Prune(fs, d, rest),
          failed |-> IF r.raised THEN "store" ELSE "no",
          event |-> "store"]
    ELSE LET hasManifest == PackageJson(fs, d).kind # "absent"
             r == scan_package_json(fs, d)
             raised == hasManifest /\ r.raised IN
         [installed |-> inst,
          deps |-> IF hasManifest /\ ~r.raised THEN Update(dps, r.value) ELSE dps,
          stack |-> IF raised \/ TooDeep(bp, d)
                    THEN Prune(fs, d, rest) ELSE Descend(fs, d, rest),
          failed |-> IF raised THEN "manifest" ELSE "no",
          event |-> IF hasManifest THEN "manifest" ELSE "plain"]

\* self.scanned_dirs.add(path_str) and the rest of the body for current_path
Process(w) ==
    /\ pc[w] = "add"
    /\ scanned_dirs' = scanned_dirs \cup {cur[w]}
    /\ LET b == Body(fsName, baseParts, cur[w], installed[w], deps[w], stack[w]) IN
       /\ installed' = [installed EXCEPT ![w] = b.installed]
       /\ deps' = [deps EXCEPT ![w] = b.deps]
       /\ stack' = [stack EXCEPT ![w] = b.stack]
       /\ failed' = [failed EXCEPT ![w] = b.failed]
       /\ pc' = [pc EXCEPT ![w] = IF b.failed = "no" THEN "walk" ELSE "done"]
       /\ processed' = IF b.event = "plain" THEN processed
                       ELSE processed \cup {<<w, cur[w], b.event>>}
    /\ UNCHANGED <<previous, fsName, baseParts, roots, max_workers, coord, results, merged, cur>>

\* os.walk is exhausted: the worker returns its two maps
Return(w) ==
    /\ pc[w] = "walk"
    /\ stack[w] = <<>>
    /\ pc' = [pc EXCEPT ![w] = "done"]
    /\ UNCHANGED <<previous, fsName, baseParts, roots, max_workers, scanned_dirs, coord,
                   results, merged, stack, cur, installed, deps, failed, processed>>

\* a coordinator that drops the maps of a worker whose walk failed
FutureResultUnlessFailed(w) ==
    IF failed[w] # "no"
    THEN [installed |-> EmptyMap, dependencies |-> EmptyMap]
    ELSE [installed |-> installed[w], dependencies |-> deps[w]]

\* the maps future.result() hands to the coordinator for worker w
FutureResult(w) == [installed |-> installed[w], dependencies |-> deps[w]]

\* one round of "for future in as_completed(...)": the two updates
Merge(w) ==
    /\ coord = "scanning"
    /\ pc[w] = "done"
    /\ w \notin merged
    /\ merged' = merged \cup {w}
    /\ results' = [results EXCEPT
          !.installed_packages = Update(@, FutureResult(w).installed),
          !.dependency_references = Update(@, FutureResult(w).dependencies)]
    /\ UNCHANGED <<previous, fsName, baseParts, roots, max_workers, scanned_dirs, coord, pc,
                   stack, cur, installed, deps, failed, processed>>

Summary(res) ==
    [total_target_packages |-> Cardinality(target_packages),
     installed_packages_found |-> Cardinality(DOMAIN res.installed_packages),
     dependency_references_found |-> Cardinality(DOMAIN res.dependency_references),
     unique_packages_found |->
        Cardinality((DOMAIN res.installed_packages)
                        \cup (DOMAIN res.dependency_references))]

\* a coordinator that computes the summary without waiting for the futures
SummarizeEarly ==
    /\ coord = "scanning"
    /\ results' = [results EXCEPT !.summary = Summary(results)]
    /\ coord' = "returned"
    /\ UNCHANGED <<previous, fsName, baseParts, roots, max_workers, scanned_dirs,
                   merged, pc, stack, cur, installed, deps, failed, processed>>

\* as_completed is exhausted: the summary is computed and the results returned
Summarize ==
    /\ coord = "scanning"
    /\ merged = Workers
    /\ results' = [results EXCEPT !.summary = Summary(results)]
    /\ coord' = "returned"
    /\ UNCHANGED <<previous, fsName, baseParts, roots, max_workers, scanned_dirs, merged, pc,
                   stack, cur, installed, deps, failed, processed>>

Next ==
    \/ ScanComputer
    \/ \E w \in Workers : Start(w)
    \/ \E w \in Workers : Enter(w)
    \/ \E w \in Workers : Process(w)
    \/ \E w \in Workers : Return(w)
    \/ \E w \in Workers : Merge(w)
    \/ Summarize

Spec == Init /\ [][Next]_vars

(* The scan of a list of roots that holds the global npm directory *)

InitGlobalRoot ==
    /\ fsName \in ProjectVariants
    /\ baseParts \in BasePartsChoices
    /\ roots \in GlobalRootLists(fsName)
    /\ max_workers \in 1..MaxPool
    /\ scanned_dirs = {}
    /\ coord = "created"
    /\ results = [installed_packages |-> EmptyMap,
                  dependency_references |-> EmptyMap,
                  summary |-> NoSummary]
    /\ merged = {}
    /\ pc = [w \in Workers |-> "new"]
    /\ stack = [w \in Workers |-> <<>>]
    /\ cur = [w \in Workers |-> <<>>]
    /\ installed = [w \in Workers |-> EmptyMap]
    /\ deps = [w \in Workers |-> EmptyMap]
    /\ failed = [w \in Workers |-> "no"]
    /\ processed = {}
    /\ previous = <<>>

SpecGlobalRoot == InitGlobalRoot /\ [][Next]_vars

(* The scan under fair scheduling *)

\* as long as some thread can take a step, some thread takes one: the weakest
\* assumption on the scheduler of the pool threads and of the coordinator
FairSpec == Spec /\ WF_vars(Next)

(* A second scan on the same scanner *)

\* number of calls of scan_computer made on one scanner
MaxScans == 2

\* scan_computer is called again on the scanner whose earlier call has returned:
\* results and the futures are new, self.scanned_dirs is the set of __init__
ScanAgain ==
    /\ coord = "returned"
    /\ Len(previous) + 1 < MaxScans
    /\ previous' = Append(previous, results)
    /\ coord' = "scanning"
    /\ results' = [installed_packages |-> EmptyMap,
                   dependency_references |-> EmptyMap,
                   summary |-> NoSummary]
    /\ merged' = {}
    /\ pc' = [w \in Workers |-> "queued"]
    /\ failed' = [w \in Workers |-> "no"]
    /\ processed' = {}
    /\ UNCHANGED <<fsName, baseParts, roots, max_workers, scanned_dirs, stack, cur,
                   installed, deps>>

NextAgain == Next \/ ScanAgain

SpecAgain == Init /\ [][NextAgain]_vars

(* A scan the user interrupts *)

\* KeyboardInterrupt is raised in the coordinator's thread inside the "with" block:
\* no "except Exception" catches it
Interrupt ==
    /\ coord = "scanning"
    /\ coord' = "interrupted"
    /\ UNCHANGED <<previous, fsName, baseParts, roots, max_workers, scanned_dirs,
                   results, merged, pc, stack, cur, installed, deps, failed,
                   processed>>

\* the executor's __exit__ is shutdown(wait=True): it returns when the pool has run
\* every submitted task; the exception then leaves scan_computer, whose results
\* nobody receives, and main prints "Scan interrupted by user."
Abort ==
    /\ coord = "interrupted"
    /\ \A w \in Workers : pc[w] = "done"
    /\ coord' = "aborted"
    /\ UNCHANGED <<previous, fsName, baseParts, roots, max_workers, scanned_dirs,
                   results, merged, pc, stack, cur, installed, deps, failed,
                   processed>>

NextInterrupt == Next \/ Interrupt \/ Abort

SpecInterrupt == Init /\ [][NextInterrupt]_vars

-----------------------------------------------------------------------------
(* The scan as a pool of one thread runs it: the tasks one after the other, *)
(* in submission order, each to its end                                      *)

RECURSIVE SoloWalk(_, _, _, _)
\* st is [stack, visited, installed, deps]: the worker's walk to its end
SoloWalk(fs, bp, st, fuel) ==
    IF st.stack = <<>> \/ fuel = 0 THEN st
    ELSE LET d == Head(st.stack)
             rest == Tail(st.stack) IN
         IF ~Readable(fs, d) \/ should_skip_directory(fs, bp, d)
         THEN SoloWalk(fs, bp, [st EXCEPT !.stack = Prune(fs, d, rest)], fuel - 1)
         ELSE IF d \in st.visited
         THEN SoloWalk(fs, bp, [st EXCEPT !.stack = Descend(fs, d, rest)], fuel - 1)
         ELSE LET b == Body(fs, bp, d, st.installed, st.deps, rest)
                  after == [stack |-> b.stack,
                            visited |-> st.visited \cup {d},
                            installed |-> b.installed,
                            deps |-> b.deps] IN
              IF b.failed # "no" THEN after ELSE SoloWalk(fs, bp, after, fuel - 1)

RECURSIVE SoloScan(_, _, _, _, _)
\* acc is [visited, installed, deps]: the merged maps after the roots from i on
SoloScan(fs, bp, rs, i, acc) ==
    IF i > Len(rs) THEN acc
    ELSE LET st == SoloWalk(fs, bp,
                            [stack |-> <<rs[i]>>, visited |-> acc.visited,
                             installed |-> EmptyMap, deps |-> EmptyMap],
                            2 * Cardinality(Dirs(fs)) * Len(rs)) IN
         SoloScan(fs, bp, rs, i + 1,
                  [visited |-> st.visited,
                   installed |-> Update(acc.installed, st.installed),
                   deps |-> Update(acc.deps, st.deps)])

SoloResult ==
    SoloScan(fsName, baseParts, roots, 1,
             [visited |-> {}, installed |-> EmptyMap, deps |-> EmptyMap])

-----------------------------------------------------------------------------
(* Properties *)

Returned == coord = "returned"

ProcessedBy(d) == {e[1] : e \in {x \in processed : x[2] = d}}

\* C1: within one scan every directory is store-scanned or manifest-extracted by
\* at most one worker, whatever the interleaving of the workers.
C1_OneWorkerPerDirectory ==
    \A d \in Dirs(fsName) : Cardinality(ProcessedBy(d)) <= 1

\* C2: the key sets of the two merged maps do not depend on the schedule: every
\* completed scan has the key sets of the scan run by a pool of one thread.
C2_KeysOrderIndependent ==
    Returned =>
        /\ DOMAIN results.installed_packages = DOMAIN SoloResult.installed
        /\ DOMAIN results.dependency_references = DOMAIN SoloResult.deps

\* the one-thread schedule is itself a schedule of the model, and gives SoloResult
SoloScheduleAgrees ==
    (Returned /\ max_workers = 1) =>
        /\ DOMAIN results.installed_packages = DOMAIN SoloResult.installed
        /\ DOMAIN results.dependency_references = DOMAIN SoloResult.deps

\* C3: every key of every worker's partial maps and of the two merged maps is a
\* member of the target set.
C3_KeysAreTargets ==
    /\ \A w \in Workers :
         /\ DOMAIN installed[w] \subseteq target_packages
         /\ DOMAIN deps[w] \subseteq target_packages
    /\ DOMAIN results.installed_packages \subseteq target_packages
    /\ DOMAIN results.dependency_references \subseteq target_packages

\* a scan that met a store holding lodash and a manifest declaring lodash, neither
\* a target, has returned with both maps filled
C3_Witness ==
    /\ Returned
    /\ \E w \in Workers : <<w, WebModules, "store">> \in processed
    /\ \E w \in Workers : <<w, <<"web">>, "manifest">> \in processed
    /\ fsName = "clean"
    /\ results.installed_packages # EmptyMap
    /\ results.dependency_references # EmptyMap

\* C4 as claimed: a worker whose walk failed is excluded from the merge, so
\* consuming its future leaves the shared result as it was.
C4_FailedWorkerExcluded ==
    [][\A w \in Workers :
          (failed[w] # "no" /\ w \notin merged /\ w \in merged')
              => results' = results]_vars

\* C4 as amended: a failed walk stops at the failure, but its worker is merged like
\* any other: every worker the coordinator has consumed, failed or not, has all
\* the keys it collected in the shared maps.
C4_FailedWorkerMerged ==
    \A w \in merged :
        /\ DOMAIN installed[w] \subseteq DOMAIN results.installed_packages
        /\ DOMAIN deps[w] \subseteq DOMAIN results.dependency_references

\* a worker that failed after it had collected entries has been merged, and so
\* has a sibling that collected entries too
C4_Witness ==
    \E w, v \in merged :
        /\ w # v
        /\ failed[w] # "no"
        /\ failed[v] = "no"
        /\ (DOMAIN installed[w]) \cup (DOMAIN deps[w]) # {}
        /\ (DOMAIN installed[v]) \cup (DOMAIN deps[v]) # {}

\* C5: a malformed or unreadable manifest gives an empty extraction and never
\* ends the walk of the root: no worker fails in the manifest extraction.
C5_BadManifestNeverEndsWalk ==
    \A w \in Workers : failed[w] # "manifest"

BadMetadata(fs, pkg) ==
    MetadataOf(fs, pkg).kind \in {"unparsable", "list", "number"}

\* C6: a store holding a matched entry with invalid metadata is still scanned to
\* its end: the worker that scanned it has every matching entry of the store in
\* its map, the entry with the invalid metadata having version "unknown".
C6_BadMetadataGivesUnknown ==
    \A e \in processed :
        (/\ e[3] = "store"
         /\ \E m \in StoreMatches(fsName, baseParts, e[2]) :
                BadMetadata(fsName, m.dir))
        => \A m \in StoreMatches(fsName, baseParts, e[2]) :
              /\ m.id \in DOMAIN installed[e[1]]
              /\ (installed[e[1]][m.id].path = m.dir /\ BadMetadata(fsName, m.dir))
                    => installed[e[1]][m.id].version = "unknown"

\* the classes of the entries an extraction result holds for identifier t
ClassesOf(found, t) ==
    {s \in {dep_sections[i] : i \in 1..Len(dep_sections)} :
        t \in DOMAIN found /\ found[t].dependency_type = s}

InAllFourClasses(f, t) ==
    /\ f.kind = "record"
    /\ \A i \in 1..Len(dep_sections) :
         /\ dep_sections[i] \in DOMAIN f.sections
         /\ f.sections[dep_sections[i]].mapping
         /\ t \in DOMAIN f.sections[dep_sections[i]].entries

\* C7: extraction over a manifest listing a target in each of the four classes
\* yields four entries for it, one per class.
C7_FourClassesFourEntries ==
    \A e \in processed : \A t \in target_packages :
        (e[3] = "manifest" /\ InAllFourClasses(PackageJson(fsName, e[2]), t))
        => Cardinality(ClassesOf(scan_package_json(fsName, e[2]).value, t)) = 4

\* C8: no worker store-scans or manifest-extracts a directory more than 10 levels
\* below the root it was started on.
C8_DepthBound ==
    \A e \in processed : Len(e[2]) - Len(roots[e[1]]) <= DepthLimit

\* a root with a well-formed manifest declaring target t in "dependencies" and,
\* right under it, a store holding t with a well-formed metadata file
EndToEnd(fs, r, t) ==
    /\ PackageJson(fs, r).kind = "record"
    /\ "dependencies" \in DOMAIN PackageJson(fs, r).sections
    /\ \A s \in DOMAIN PackageJson(fs, r).sections :
          PackageJson(fs, r).sections[s].mapping
    /\ t \in DOMAIN PackageJson(fs, r).sections["dependencies"].entries
    /\ (r \o <<"node_modules", t>>) \in Dirs(fs)
    /\ PackageJson(fs, r \o <<"node_modules", t>>).kind = "record"

\* C9: the end-to-end scenario gives an installed record and a dependency
\* reference for the target, however many components the root's path has.
C9_EndToEndAtAnyRoot ==
    Returned =>
        \A i \in Workers : \A t \in target_packages :
            EndToEnd(fsName, roots[i], t)
            => /\ t \in DOMAIN results.installed_packages
               /\ t \in DOMAIN results.dependency_references

\* a directory the claim calls deny-listed, disallowed dot-named or unreadable
Denied(fs, bp, d) ==
    \/ Name(bp, d) \in skip_dirs
    \/ Name(bp, d) \in DotNames \ {".npm", ".node_modules"}
    \/ ~Readable(fs, d)

\* no directory from r down to d, both included, is denied
CleanPath(fs, bp, r, d) ==
    /\ IsPrefix(r, d)
    /\ \A n \in Len(r)..Len(d) : ~Denied(fs, bp, SubSeq(d, 1, n))

\* C10: no worker processes a directory that is denied or lies below a denied
\* directory on the path from its root, and no record of a worker's maps comes
\* from inside such a directory.
C10_DeniedNeverProcessed ==
    /\ \A e \in processed : CleanPath(fsName, baseParts, roots[e[1]], e[2])
    /\ \A w \in Workers :
         /\ \A k \in DOMAIN installed[w] :
               CleanPath(fsName, baseParts, roots[w], installed[w][k].path)
         /\ \A k \in DOMAIN deps[w] :
               CleanPath(fsName, baseParts, roots[w], deps[w][k].path)

\* a worker has walked web/, which holds a deny-listed and an unreadable directory
\* with a target package inside, and the scan has returned without that target
\* among the installed packages
C10_Witness ==
    /\ Returned
    /\ \E w \in Workers :
         /\ IsPrefix(roots[w], <<"web">>)
         /\ <<w, <<"web">>, "manifest">> \in processed
         /\ <<w, WebModules, "store">> \in processed
    /\ "yoo-styles" \notin DOMAIN results.installed_packages

-----------------------------------------------------------------------------
(* Two scans in a row *)

\* C11: when scan_computer is run a second time on the same scanner over the
\* unchanged filesystem, the installed map and the dependency map it returns have
\* the key sets of the maps the first run returned
C11_SecondScanSameKeys ==
    (Returned /\ previous # <<>>) =>
        /\ DOMAIN results.installed_packages =
              DOMAIN previous[1].installed_packages
        /\ DOMAIN results.dependency_references =
              DOMAIN previous[1].dependency_references

-----------------------------------------------------------------------------
(* Interruption *)

\* C12: once the user has interrupted the scan no root that was still queued is
\* started, and when the interrupted scan ends the Summary counts have been
\* computed over the results merged so far
C12_InterruptKeepsPartials ==
    [][/\ coord = "interrupted" =>
             \A w \in Workers : pc[w] = "queued" => pc'[w] = "queued"
       /\ coord' = "aborted" => results'.summary = Summary(results')]_vars

-----------------------------------------------------------------------------
(* Completeness *)

\* a filesystem on which no read and no parse fails
NoReadOrParseError(fs) == fs \in {"clean", "deep"}

IsStore(fs, bp, d) == d \in Dirs(fs) /\ Name(bp, d) = "node_modules"

\* store s is reached from root r through directories that are neither denied nor
\* inside another store, and lies at most DepthLimit levels below r
ReachableStore(fs, bp, r, s) ==
    /\ IsStore(fs, bp, s)
    /\ CleanPath(fs, bp, r, s)
    /\ \A n \in Len(r)..(Len(s) - 1) : ~IsStore(fs, bp, SubSeq(s, 1, n))
    /\ Len(s) - Len(r) <= DepthLimit

\* identifier id is installed nowhere but in directory dir
OnlyPlace(fs, bp, id, dir) ==
    \A s \in {d \in Dirs(fs) : IsStore(fs, bp, d)} :
        \A m \in StoreMatches(fs, bp, s) : m.id = id => m.dir = dir

\* the completeness of C13 for the stores satisfying Within
Complete(Within(_)) ==
    (Returned /\ NoReadOrParseError(fsName)) =>
        \A w \in Workers :
            \A s \in {d \in Dirs(fsName) :
                        /\ ReachableStore(fsName, baseParts, roots[w], d)
                        /\ Within(d)} :
                \A m \in StoreMatches(fsName, baseParts, s) :
                    /\ m.id \in DOMAIN results.installed_packages
                    /\ OnlyPlace(fsName, baseParts, m.id, m.dir)
                          => results.installed_packages[m.id].version
                                = PackageJson(fsName, m.dir).version

\* C13: when no read or parse error occurs, every target installed in a store that
\* is reachable from some root through non-skipped directories within the depth
\* bound is a key of the final installed map, with the version of its metadata
\* file if that is the only place where it is installed.
C13_Complete == Complete(LAMBDA s : TRUE)

\* the same for the stores whose parent's absolute path has at most DepthLimit
\* components, which is the bound the walker tests
CompleteWithinAbsoluteDepth ==
    Complete(LAMBDA s : \/ \E i \in Workers : s = roots[i]
                        \/ Parts(baseParts, Parent(s)) <= DepthLimit)

-----------------------------------------------------------------------------
(* Scoped packages *)

\* rec is the record of a package directory directly inside a scope directory
InScope(bp, rec) == StartsWith(Name(bp, Parent(rec.path)), "@")

\* every installed record of map m is filed as C14 says
ScopedUnderCombinedName(bp, m) ==
    \A k \in DOMAIN m :
        /\ ~StartsWith(Name(bp, m[k].path), "@")
        /\ InScope(bp, m[k]) =>
              /\ k = Name(bp, Parent(m[k].path)) \o "/" \o Name(bp, m[k].path)
              /\ k \in target_packages

\* C14: a scoped package is recorded only under its combined identifier scope/child
\* and only when that identifier is a target, never because the scope name or the
\* child name alone is one; a scope directory is never recorded as a package.
C14_ScopedOnlyCombined ==
    /\ \A w \in Workers : ScopedUnderCombinedName(baseParts, installed[w])
    /\ ScopedUnderCombinedName(baseParts, results.installed_packages)

\* a worker has scanned the store holding @ctrl/yoo-styles, whose scope name and
\* child name are targets while the combined identifier is not, and the store
\* holding @ctrl/tinycolor, a target; the scan has returned with the second only
C14_Witness ==
    /\ Returned
    /\ {"@ctrl", "yoo-styles"} \subseteq target_packages
    /\ "@ctrl/yoo-styles" \notin target_packages
    /\ \E w \in Workers :
         /\ <<w, <<"node_modules">>, "store">> \in processed
         /\ <<"node_modules", "@ctrl", "yoo-styles">> \in Dirs(fsName)
         /\ failed[w] = "no"
    /\ "@ctrl/tinycolor" \in DOMAIN results.installed_packages
    /\ results.installed_packages["@ctrl/tinycolor"].path
         = WebModules \o <<"@ctrl", "tinycolor">>
    /\ "left-pad" \in DOMAIN results.installed_packages
    /\ {"@ctrl", "yoo-styles"} \cap DOMAIN results.installed_packages = {}

-----------------------------------------------------------------------------
(* The merge *)

\* after is before with the entries of part written over it
WrittenOver(before, part, after) ==
    /\ DOMAIN after = (DOMAIN before) \cup (DOMAIN part)
    /\ \A k \in DOMAIN part : after[k] = part[k]
    /\ \A k \in (DOMAIN before) \ (DOMAIN part) : after[k] = before[k]

\* no two workers have a key in common
DisjointPartials ==
    \A w, v \in Workers :
        w # v => /\ (DOMAIN installed[w]) \cap (DOMAIN installed[v]) = {}
                 /\ (DOMAIN deps[w]) \cap (DOMAIN deps[v]) = {}

\* C15: the merge is a key-wise union in which the last write wins: merging a
\* worker leaves, for each of its keys, the worker's record and for every other
\* key the record that was there; with pairwise disjoint partial maps the final
\* maps are the union of the partial maps, whatever the order of the merges.
C15_MergeLastWriteWins ==
    /\ [][\A w \in Workers :
             (w \notin merged /\ w \in merged') =>
                 /\ WrittenOver(results.installed_packages, installed[w],
                                results'.installed_packages)
                 /\ WrittenOver(results.dependency_references, deps[w],
                                results'.dependency_references)]_vars
    /\ []((Returned /\ DisjointPartials) =>
             /\ DOMAIN results.installed_packages =
                   UNION {DOMAIN installed[w] : w \in Workers}
             /\ DOMAIN results.dependency_references =
                   UNION {DOMAIN deps[w] : w \in Workers}
             /\ \A w \in Workers :
                  /\ \A k \in DOMAIN installed[w] :
                        results.installed_packages[k] = installed[w][k]
                  /\ \A k \in DOMAIN deps[w] :
                        results.dependency_references[k] = deps[w][k])

\* two workers holding different records for one key have both been merged
C15_Witness ==
    /\ merged = Workers
    /\ \E w, v \in Workers : \E k \in (DOMAIN deps[w]) \cap (DOMAIN deps[v]) :
         /\ deps[w][k] # deps[v][k]
         /\ results.dependency_references[k] = deps[v][k]

-----------------------------------------------------------------------------
(* Directories found in the visited set *)

\* worker w is about to be handed, by os.walk, a directory that is neither
\* skipped nor unreadable and is already in scanned_dirs
ArrivesAtVisited(w) ==
    /\ pc[w] = "walk"
    /\ stack[w] # <<>>
    /\ Readable(fsName, Head(stack[w]))
    /\ ~should_skip_directory(fsName, baseParts, Head(stack[w]))
    /\ Head(stack[w]) \in scanned_dirs

\* C16: a worker that arrives at a directory already in the visited set ends that
\* branch at once: it does not process the directory and os.walk hands it no
\* directory below it.
C16_VisitedEndsBranch ==
    [][\A w \in Workers :
          (ArrivesAtVisited(w) /\ stack'[w] # stack[w]) =>
              /\ pc'[w] = "walk"
              /\ stack'[w] = Tail(stack[w])]_vars

-----------------------------------------------------------------------------
(* The subtree of a store *)

\* the stores strictly below root r that directory d lies inside, by their depth
StoresAbove(fs, bp, r, d) ==
    {n \in (Len(r) + 1)..(Len(d) - 1) : IsStore(fs, bp, SubSeq(d, 1, n))}

\* C17: whatever the interleaving, a worker that reaches a store below its root
\* enters nothing below it: no dependency reference of its map comes from a
\* manifest inside such a store and no installed record from a store nested in
\* such a store.
C17_StoreSubtreePruned ==
    \A w \in Workers :
        /\ \A k \in DOMAIN deps[w] :
              StoresAbove(fsName, baseParts, roots[w], deps[w][k].path) = {}
        /\ \A k \in DOMAIN installed[w] :
              Cardinality(StoresAbove(fsName, baseParts, roots[w],
                                      installed[w][k].path)) <= 1

-----------------------------------------------------------------------------
(* The summary *)

\* C18: the summary is computed only when every submitted worker has completed
\* and been consumed by the coordinator; its counts are the sizes of the two
\* merged maps and of the union of their key sets, none of them above
\* total_target_packages.
C18_SummaryAfterAllWorkers ==
    results.summary # NoSummary =>
        /\ \A w \in Workers : pc[w] = "done" /\ w \in merged
        /\ results.summary.installed_packages_found =
              Cardinality(DOMAIN results.installed_packages)
        /\ results.summary.dependency_references_found =
              Cardinality(DOMAIN results.dependency_references)
        /\ results.summary.unique_packages_found =
              Cardinality((DOMAIN results.installed_packages)
                              \cup (DOMAIN results.dependency_references))
        /\ results.summary.total_target_packages = Cardinality(target_packages)
        /\ \A c \in {"installed_packages_found", "dependency_references_found",
                      "unique_packages_found"} :
              results.summary[c] <= results.summary.total_target_packages

\* a scan of two roots has returned a summary over maps with different key sets
C18_Witness ==
    /\ Returned
    /\ Len(roots) = 2
    /\ results.summary.installed_packages_found > 0
    /\ results.summary.dependency_references_found > 0
    /\ results.summary.unique_packages_found
         > results.summary.installed_packages_found

-----------------------------------------------------------------------------
(* Termination *)

\* C19: over a finite tree and finitely many roots, with a pool of at least one
\* thread and fair scheduling, every worker eventually finishes and the scan
\* eventually returns.
C19_ScanTerminates ==
    <>(Returned /\ \A w \in Workers : pc[w] = "done")

\* the directories at and below d
SubtreeSize(fs, d) == Cardinality({x \in Dirs(fs) : IsPrefix(d, x)})

RECURSIVE LeftToWalk(_, _)
\* the directories os.walk can still yield from the stack st
LeftToWalk(fs, st) ==
    IF st = <<>> THEN 0 ELSE SubtreeSize(fs, Head(st)) + LeftToWalk(fs, Tail(st))

\* a bound on the steps worker w can still take
WorkLeft(w) ==
    CASE pc[w] = "new" -> 2 * Cardinality(Dirs(fsName)) + 3
      [] pc[w] = "queued" -> 2 * Cardinality(Dirs(fsName)) + 2
      [] pc[w] = "walk" -> 2 * LeftToWalk(fsName, stack[w]) + 1
      [] pc[w] = "add" ->
           2 * LeftToWalk(fsName, stack[w]) + 2 * SubtreeSize(fsName, cur[w])
      [] OTHER -> 0

RECURSIVE WorkLeftFrom(_)
WorkLeftFrom(w) == IF w > Len(roots) THEN 0 ELSE WorkLeft(w) + WorkLeftFrom(w + 1)

\* a bound on the steps the scan can still take
StepsLeft ==
    WorkLeftFrom(1) + (Len(roots) - Cardinality(merged))
        + (CASE coord = "created" -> 2 [] coord = "scanning" -> 1 [] OTHER -> 0)

\* every step of the scan lowers StepsLeft, and the scan stops only when it has
\* returned: termination without a search for cycles
EveryStepLowersStepsLeft == [][StepsLeft' < StepsLeft]_vars
StopsOnlyWhenReturned == Returned \/ ENABLED Next

\* a scan of more roots than the pool has threads has returned
C19_Witness ==
    /\ Returned
    /\ Len(roots) > max_workers
    /\ \A w \in Workers : pc[w] = "done"

-----------------------------------------------------------------------------
(* A root the classifier skips *)

\* C20: the classifier is applied to a worker's own root: a worker started on a
\* root whose name is deny-listed or dot-named outside the allow-list returns two
\* empty maps and adds nothing to the visited set, whatever the root contains.
C20_SkippedRootGivesNothing ==
    \A w \in Workers :
        Denied(fsName, baseParts, roots[w]) =>
            /\ installed[w] = EmptyMap
            /\ deps[w] = EmptyMap
            /\ pc[w] # "add"
            /\ \A e \in processed : e[1] # w
            /\ \A d \in scanned_dirs : ~IsPrefix(roots[w], d)

\* the worker started on .npm-global, which holds a store with the target
\* left-pad, has returned and been merged, and the scan has returned without
\* left-pad from that store
C20_Witness ==
    /\ Returned
    /\ \E w \in merged :
         /\ roots[w] = GlobalRoot
         /\ pc[w] = "done"
         /\ (roots[w] \o <<"node_modules", "left-pad">>) \in Dirs(fsName)
         /\ PackageJson(fsName, roots[w] \o <<"node_modules", "left-pad">>).kind
              = "record"
    /\ "left-pad" \in target_packages
    /\ \A k \in DOMAIN results.installed_packages :
         ~IsPrefix(GlobalRoot, results.installed_packages[k].path)
    /\ Len(roots) > 1
    /\ results.installed_packages # EmptyMap

====
